---- MODULE Spec2Model ----
(***************************************************************************)
(* testgen.py: discovery of a module tree, creation of the mirrored test   *)
(* files, and appending of skipped test stubs for the functions, classes   *)
(* and methods that have no test yet.                                      *)
(*                                                                         *)
(* Text is a sequence of logical lines; a line's indentation is counted in *)
(* levels of four spaces.  Dotted names are sequences of segments, storage *)
(* paths used by is_submodule are sequences of characters.                 *)
(***************************************************************************)
EXTENDS Integers, Sequences, FiniteSets, TLC

\* How many times the program is started in one behaviour.
MaxRuns == 3
\* How many edits (of the sources or of a test file) the developer makes.
MaxEdits == 2
\* Depth of nested _build_tree calls at which the interpreter raises
\* RecursionError.
MaxDepth == 5

VARIABLES
    graph,      \* which module namespace graph the root module heads
    src,        \* members of the leaf module: set of [key, ent]
    pc,         \* "idle" | "build" | "setup" | "gen"
    stack,      \* call stack of _build_tree: sequence of frames
    tree,       \* result of get_submodule_tree
    mods,       \* result of setup_files: sequence of [path, mod, testmod]
    idx,        \* position of generate_tests in mods
    files,      \* the output directory: path -> sequence of lines
    dirs,       \* directories made in the output directory
    modcache,   \* sys.modules entries of test modules: testmod -> module
    err,        \* "" or the exception that ended the last run
    runs,       \* number of runs started
    edits,      \* number of edits made
    pre,        \* files as they were when the current run started
    last,       \* what the last processed leaf loaded and appended
    log         \* one record per finished run

vars == <<graph, src, pc, stack, tree, mods, idx, files, dirs, modcache, err,
          runs, edits, pre, last, log>>

----------------------------------------------------------------------------
\* Sequences

Last(s) == s[Len(s)]

Front(s) == SubSeq(s, 1, Len(s) - 1)

IsPrefix(s, t) == Len(s) <= Len(t) /\ SubSeq(t, 1, Len(s)) = s

RECURSIVE Flatten(_)
Flatten(ss) == IF ss = <<>> THEN <<>> ELSE Head(ss) \o Flatten(Tail(ss))

Range(s) == {s[i] : i \in DOMAIN s}

----------------------------------------------------------------------------
\* Names.  inspect.getmembers returns members sorted by name; NameOrder is
\* the code-point order of the names that occur ("A" < "_" < "a").

NameOrder ==
    <<"C", "D", "TestC", "TestD", "__init__", "a", "b", "k", "m", "n", "p",
      "r", "test_a", "test_b", "test_k", "test_m", "test_n", "test_x",
      "test_z", "x", "z">>

Rank(s) == CHOOSE i \in DOMAIN NameOrder : NameOrder[i] = s

\* The bindings of a namespace in the order of inspect.getmembers.
RECURSIVE SortByKey(_)
SortByKey(S) ==
    IF S = {} THEN <<>>
    ELSE LET b == CHOOSE x \in S : \A y \in S : Rank(x.key) <= Rank(y.key)
         IN  <<b>> \o SortByKey(S \ {b})

----------------------------------------------------------------------------
\* Objects of the inspected program.

Fn(name, mod) ==
    [name |-> name, kind |-> "function", module |-> mod, members |-> {}]

Cls(name, mod, members) ==
    [name |-> name, kind |-> "class", module |-> mod, members |-> members]

Module(name, members) ==
    [name |-> name, kind |-> "module", module |-> <<>>, members |-> members]

Bind(key, ent) == [key |-> key, ent |-> ent]

Def(ent) == Bind(ent.name, ent)

----------------------------------------------------------------------------
\* UTILITIES

\* What exists_test returns when no item matches (False).
NoItem == [name |-> "", kind |-> "none", module |-> <<>>, members |-> {}]

Truthy(x) == x.kind # "none"

IsSubfunction(obj, parent) ==
    IF parent.kind = "class"
    THEN obj.kind = "function" /\ obj.module = parent.module
    ELSE IF parent.kind = "module"
    THEN obj.kind = "function" /\ obj.module = parent.name
    ELSE FALSE

IsSubclass(obj, parent) ==
    IF parent.kind = "class"
    THEN obj.kind = "class" /\ obj.module = parent.module
    ELSE IF parent.kind = "module"
    THEN obj.kind = "class" /\ obj.module = parent.name
    ELSE FALSE

\* get_testables: the values of the members, in the order of their keys.
GetTestables(obj, ignore) ==
    LET members   == SortByKey(obj.members)
        testables == SelectSeq(members,
                        LAMBDA b : IsSubfunction(b.ent, obj) \/ IsSubclass(b.ent, obj))
        kept      == SelectSeq(testables, LAMBDA b : b.key \notin ignore)
    IN  [i \in 1..Len(kept) |-> kept[i].ent]

GetFunctionTestName(func) == "test_" \o func.name

GetClassTestName(cls) == "Test" \o cls.name

\* exists_test comparing with the name of obj itself, not of its test.
ExistsTestByOwnName(obj, context) ==
    LET hits == SelectSeq(context, LAMBDA item : item.name = obj.name)
    IN  IF hits = <<>> THEN NoItem ELSE Head(hits)

\* exists_test: the first item of context named as the test of obj, or False.
ExistsTest(obj, context) ==
    LET name == IF obj.kind = "class" THEN GetClassTestName(obj)
                ELSE GetFunctionTestName(obj)
        hits == SelectSeq(context, LAMBDA item : item.name = name)
    IN  IF hits = <<>> THEN NoItem ELSE Head(hits)

----------------------------------------------------------------------------
\* Text

\* Spaces of one indentation step (indent's default).
Spaces == 4

Line(ind, kind, name, arg) ==
    [ind |-> ind, kind |-> kind, name |-> name, arg |-> arg,
     mod |-> <<>>, items |-> <<>>]

Blank == Line(0, "blank", "", "")

\* textwrap.indent: lines of whitespace only are left alone.
Indent(text, n) ==
    [i \in 1..Len(text) |->
        IF text[i].kind = "blank" THEN text[i]
        ELSE [text[i] EXCEPT !.ind = @ + n * Spaces]]

FormatFunction(function, is_method) ==
    <<Line(0, "deco", "pytest.mark.skip", ""),
      Line(0, "def", GetFunctionTestName(function),
           IF is_method THEN "self" ELSE ""),
      Line(4, "pass", "", "")>>

\* An enumeration of a set (set(exists) is only searched by name).
RECURSIVE SetToSeq(_)
SetToSeq(S) ==
    IF S = {} THEN <<>>
    ELSE LET x == CHOOSE y \in S : TRUE IN <<x>> \o SetToSeq(S \ {x})

\* format_class(cls, n, exists); exists=None is the empty sequence.
RECURSIVE FormatClass(_, _, _)
FormatClass(cls, n, exists) ==
    LET name    == GetClassTestName(cls)
        ex      == SetToSeq(Range(exists))
        header  == IF ex # <<>> THEN <<>>
                   ELSE <<Line(0, "deco", "pytest.mark.skip", ""),
                          Line(0, "class", name, ""),
                          Line(4, "doc", "", "")>>
        members == GetTestables(cls, {"__init__"})
        Part(member) ==
            IF IsSubfunction(member, cls)
            THEN IF Truthy(ExistsTest(member, ex)) THEN <<>>
                 ELSE Indent(FormatFunction(member, TRUE), n)
            ELSE IF IsSubclass(member, cls)
            THEN LET found == GetTestables(member, {"__init__"})
                     exists_in_subcls ==
                         IF found = <<>> THEN <<member>> ELSE found
                 IN  Indent(FormatClass(member, 1, exists_in_subcls), n)
            ELSE <<>>
    IN  header \o Flatten([i \in 1..Len(members) |-> Part(members[i])])

----------------------------------------------------------------------------
\* Loading a test file (importlib.import_module executes its text).
\* The interpreter's block structure: an indentation stack, a block opened
\* by every def or class line, a decorator bound to the def or class line
\* that follows it.  A def or class is recorded with the blocks around it.

ParseInit ==
    [ok |-> TRUE, indents |-> <<0>>, scopes |-> <<>>, opener |-> <<>>,
     deco |-> FALSE, defs |-> <<>>]

ParseLine(st, j, ln) ==
    IF ~st.ok \/ ln.kind = "blank" THEN st
    ELSE
    LET d    == ln.ind
        top  == Last(st.indents)
        bad  == [st EXCEPT !.ok = FALSE]
        keep == SelectSeq(st.indents, LAMBDA x : x <= d)
        in   == IF st.opener # <<>>
                THEN IF d > top
                     THEN [st EXCEPT !.indents = Append(@, d),
                                     !.scopes = Append(@, st.opener[1])]
                     ELSE bad                \* expected an indented block
                ELSE IF d > top THEN bad     \* unexpected indent
                ELSE IF Last(keep) # d THEN bad   \* unindent matches nothing
                ELSE [st EXCEPT !.indents = keep,
                                !.scopes = SubSeq(@, 1, Len(keep) - 1)]
        isDef  == ln.kind \in {"def", "class"}
        decoOk == ~st.deco \/ (d = top /\ ln.kind \in {"def", "class", "deco"})
    IN  IF ~in.ok \/ ~decoOk THEN bad
        ELSE [in EXCEPT
                !.opener = IF isDef THEN <<[kind |-> ln.kind, id |-> j]>>
                           ELSE <<>>,
                !.deco = (ln.kind = "deco"),
                !.defs = IF isDef
                         THEN Append(@, [id |-> j, kind |-> ln.kind,
                                         name |-> ln.name, scope |-> in.scopes])
                         ELSE @]

\* The state after the lines lo..hi of text, read in order from state st;
\* reading stops at the first line that is rejected.
RECURSIVE ParseFrom(_, _, _, _)
ParseFrom(st, lo, hi, text) ==
    IF lo > hi THEN st
    ELSE IF lo = hi THEN ParseLine(st, lo, text[lo])
    ELSE LET mid  == (lo + hi) \div 2
             half == ParseFrom(st, lo, mid, text)
         IN  IF half.ok THEN ParseFrom(half, mid + 1, hi, text) ELSE half

Parse(text) ==
    LET st == ParseFrom(ParseInit, 1, Len(text), text)
    IN  [st EXCEPT !.ok = st.ok /\ st.opener = <<>> /\ ~st.deco]

\* The object a namespace binds name to: the last of defs so named.
Defined(defs, name, testmod, members) ==
    LET ds == SelectSeq(defs, LAMBDA d : d.name = name)
        d  == Last(ds)
    IN  IF d.kind = "class" THEN Cls(name, testmod, members[d.id])
        ELSE Fn(name, testmod)

\* The module object import_module(testmod) yields for text: what the
\* header imports from the source module (source: its members now), then
\* what the text defines at top level; a class with the functions and
\* classes of its body.
LoadModule(testmod, text, source) ==
    LET parsed == Parse(text)
        top    == SelectSeq(parsed.defs, LAMBDA d : d.scope = <<>>)
        Body(cid) ==
            SelectSeq(parsed.defs,
                      LAMBDA d : d.scope = <<[kind |-> "class", id |-> cid]>>)
        noMembers == [i \in DOMAIN text |-> {}]
        inClass == [i \in DOMAIN text |->
                     {Bind(n, Defined(Body(i), n, testmod, noMembers)) :
                        n \in {d.name : d \in Range(Body(i))}}]
        defined  == {d.name : d \in Range(top)}
        imported == UNION {Range(text[i].items) :
                            i \in {k \in DOMAIN text : text[k].kind = "from"}}
        Lookup(key) == (CHOOSE b \in source : b.key = key).ent
    IN  [ok |-> parsed.ok,
         module |-> Module(testmod,
            {Bind(n, Defined(top, n, testmod, inClass)) : n \in defined}
            \cup {Bind(n, Lookup(n)) : n \in imported \ defined})]

----------------------------------------------------------------------------
\* The module namespace graphs.  A module has __name__, __file__ and, when
\* it is a package, __path__[0]; subs are the modules its namespace binds.

Graphs == {"single", "flat", "nested", "deepref", "selfref", "ancestor"}

RDir == <<"/", "r">>

PDir == RDir \o <<"/", "p">>

Py(stem) == stem \o <<".", "p", "y">>

Package(name, path, subs) ==
    [name |-> name, hasPath |-> TRUE, path |-> path,
     file |-> Py(path \o <<"/", "_", "_", "i", "n", "i", "t", "_", "_">>),
     subs |-> subs]

FileModule(name, file) ==
    [name |-> name, hasPath |-> FALSE, path |-> <<>>, file |-> file, subs |-> {}]

Nodes(g) ==
    CASE g = "single" ->
           [id \in {"r"} |-> FileModule(<<"r">>, Py(RDir))]
      [] g = "flat" ->
           [id \in {"r", "m"} |->
              IF id = "r" THEN Package(<<"r">>, RDir, {Bind("m", "m")})
              ELSE FileModule(<<"r", "m">>, Py(RDir \o <<"/", "m">>))]
      [] OTHER ->
           [id \in {"r", "p", "m"} |->
              IF id = "r"
              THEN Package(<<"r">>, RDir,
                     {Bind("p", "p")}
                     \cup (IF g = "deepref" THEN {Bind("m", "m")} ELSE {})
                     \cup (IF g = "selfref" THEN {Bind("r", "r")} ELSE {}))
              ELSE IF id = "p"
              THEN Package(<<"r", "p">>, PDir,
                     {Bind("m", "m")}
                     \cup (IF g = "ancestor" THEN {Bind("r", "r")} ELSE {}))
              ELSE FileModule(<<"r", "p", "m">>, Py(PDir \o <<"/", "m">>))]

\* The one module of a graph that defines functions and classes.
LeafId(g) == IF g = "single" THEN "r" ELSE "m"

LeafName(g) == Nodes(g)[LeafId(g)].name

\* The module object of node id.
ModuleObject(g, members, id) ==
    Module(Nodes(g)[id].name, IF id = LeafId(g) THEN members ELSE {})

\* str.startswith
StartsWith(s, prefix) == IsPrefix(prefix, s)

IsSubmodule(child, parent) ==
    IF ~parent.hasPath THEN FALSE
    ELSE IF child.hasPath THEN StartsWith(child.path, parent.path)
    ELSE StartsWith(child.file, parent.path)

\* get_submodule_tree passes no ignore list.
Ignore == {}

GetSubmodules(g, id) ==
    LET module  == Nodes(g)[id]
        members == SelectSeq(SortByKey(module.subs),
                     LAMBDA b : IsSubmodule(Nodes(g)[b.ent], module))
        kept    == SelectSeq(members,
                     LAMBDA b : Nodes(g)[b.ent].name \notin Ignore)
    IN  [i \in 1..Len(kept) |-> kept[i].ent]

\* Values of the tree: a module (leaf) or a dict of key -> tree.
Leaf(id) == [isDict |-> FALSE, mod |-> id, items |-> <<>>]

Dict(items) == [isDict |-> TRUE, mod |-> "", items |-> items]

\* result[key] = val
DictSet(items, key, val) ==
    IF \E i \in DOMAIN items : items[i].key = key
    THEN [i \in DOMAIN items |->
            IF items[i].key = key THEN [key |-> key, val |-> val] ELSE items[i]]
    ELSE Append(items, [key |-> key, val |-> val])

\* A call of _build_tree(root): its locals.
Frame(g, id) ==
    [root |-> id, children |-> GetSubmodules(g, id), i |-> 1, result |-> <<>>]

----------------------------------------------------------------------------
\* MAIN

\* The output directory given to the program, Path(path): one relative
\* component, so that os.chdir(base.parent) changes nothing.
Base == <<"t">>

BaseStem == Last(Base)

\* A file of the output directory: its directory, and the name in two parts.
FilePath(dir, stem, ext) == [dir |-> dir, stem |-> stem, ext |-> ext]

\* mkdir(parents=True): the directory and every directory above it.
Parents(dir) == {SubSeq(dir, 1, k) : k \in 1..Len(dir)}

\* The segments ".".join(parts) contributes between two dots.
DotJoin(parts) == IF parts = <<>> THEN <<"">> ELSE parts

\* The header of a file created for the leaf module submod.
Header(name, submod) ==
    LET found == GetTestables(submod, {})
        items == [i \in 1..Len(found) |-> found[i].name]
    IN  <<[Line(0, IF items # <<>> THEN "from" ELSE "import", "", "")
             EXCEPT !.mod = name, !.items = items],
          [Line(0, "import", "", "") EXCEPT !.mod = <<"pytest">>]>>

\* The file opened with "w" whether or not it exists.
CreateFileTruncating(fs, fullpath, header) ==
    (fullpath :> header) @@ fs

\* The file system after "if not fullpath.exists(): open(fullpath, 'a')...":
\* a file that exists is left as it is.
CreateFile(fs, fullpath, header) ==
    IF fullpath \in DOMAIN fs THEN fs ELSE (fullpath :> header) @@ fs

\* The file system after open(path, "a") and the writes of body.
AppendFile(fs, path, body) ==
    IF path \in DOMAIN fs THEN [fs EXCEPT ![path] = @ \o body]
    ELSE (path :> body) @@ fs

\* _help_setup_files(base, modules), modules given as its items; st carries
\* result and the file system.
RECURSIVE HelpSetupFiles(_, _, _, _)
HelpSetupFiles(g, source, items, st) ==
    IF items = <<>> THEN st
    ELSE
    LET name   == Head(items).key
        submod == Head(items).val
        mid    == SubSeq(name, 2, Len(name) - 1)
        filename == FilePath(<<>>, "test_" \o Last(name), ".py")
        fullpath == [filename EXCEPT !.dir = Base \o mid]
        testmod  == <<BaseStem>> \o DotJoin(mid) \o <<filename.stem>>
        done ==
            IF submod.isDict
            THEN HelpSetupFiles(g, source, submod.items,
                   [st EXCEPT !.dirs = @ \cup Parents(Base \o Tail(name))])
            ELSE [result |-> Append(st.result,
                    [path |-> fullpath, mod |-> submod.mod, testmod |-> testmod]),
                  dirs |-> st.dirs \cup Parents(fullpath.dir),
                  files |-> CreateFile(st.files, fullpath,
                              Header(name, ModuleObject(g, source, submod.mod)))]
    IN  HelpSetupFiles(g, source, Tail(items), done)

\* setup_files(path, modules)
SetupFilesResult(g, source, modules, fs, ds) ==
    HelpSetupFiles(g, source,
        IF modules.isDict THEN modules.items
        ELSE <<[key |-> Nodes(g)[modules.mod].name, val |-> modules]>>,
        [result |-> <<>>, files |-> fs, dirs |-> ds \cup Parents(Base)])

\* importlib.import_module(testmod), run in the directory above Base.
ImportModule(testmod, cache, fs, ds, source) ==
    LET path == FilePath(Front(testmod), Last(testmod), ".py")
    IN  IF testmod \in DOMAIN cache
        THEN [err |-> "", module |-> cache[testmod]]
        ELSE IF (\E i \in DOMAIN testmod : testmod[i] = "")
                \/ path.dir \notin ds \/ path \notin DOMAIN fs
        THEN [err |-> "ModuleNotFoundError", module |-> Module(testmod, {})]
        ELSE LET loaded == LoadModule(testmod, fs[path], source)
             IN  IF loaded.ok THEN [err |-> "", module |-> loaded.module]
                 ELSE [err |-> "IndentationError",
                       module |-> Module(testmod, {})]

\* What generate_tests writes for one member of the leaf module.
StubsFor(obj, exists) ==
    IF obj.kind = "function"
    THEN IF Truthy(ExistsTest(obj, exists)) THEN <<>>
         ELSE FormatFunction(obj, FALSE) \o <<Blank>>
    ELSE IF obj.kind = "class"
    THEN LET test_obj == ExistsTest(obj, exists)
             exists_in_cls == GetTestables(test_obj, {})
         IN  (IF Truthy(test_obj)
              THEN FormatClass(obj, 1,
                     IF exists_in_cls = <<>> THEN <<obj>> ELSE exists_in_cls)
              ELSE FormatClass(obj, 1, <<>>))
             \o <<Blank>>
    ELSE <<>>

\* What one pass of the loop of generate_tests appends to the leaf's file.
GenerateBody(mod, test_mod) ==
    LET exists  == GetTestables(test_mod, {})
        members == GetTestables(mod, {})
    IN  Flatten([i \in 1..Len(members) |-> StubsFor(members[i], exists)])

----------------------------------------------------------------------------
\* The sources under inspection: the members of the leaf module.

Keys(members) == {b.key : b \in members}

ClassC(mod, methods, nested) ==
    Cls("C", mod,
        {Def(Fn("__init__", mod))} \cup {Def(Fn(f, mod)) : f \in methods}
        \cup nested)

FuncChoices(mod) ==
    { {},
      {Def(Fn("a", mod))},
      {Def(Fn("a", mod)), Def(Fn("b", mod))},
      {Def(Fn("a", mod)), Bind("z", Fn("a", mod))} }      \* z = a

ClassChoices(mod) ==
    { {},
      {Def(ClassC(mod, {"m"}, {}))},
      {Def(ClassC(mod, {"m"}, {Def(Cls("D", mod, {}))}))},
      {Def(ClassC(mod, {"m"}, {Def(Cls("D", mod, {Def(Fn("k", mod))}))}))} }

\* x is a function the leaf module imports from another module.
Sources(mod) ==
    { {Bind("x", Fn("x", <<"other">>))} \cup fs \cup cs :
        fs \in FuncChoices(mod), cs \in ClassChoices(mod) }

NoLast ==
    [testmod |-> <<>>, loaded |-> Module(<<>>, {}),
     source |-> Module(<<>>, {}), body |-> <<>>, added |-> <<>>]

Init ==
    /\ graph \in Graphs
    /\ src \in Sources(LeafName(graph))
    /\ pc = "idle"
    /\ stack = <<>>
    /\ tree = Dict(<<>>)
    /\ mods = <<>>
    /\ idx = 1
    /\ files = <<>>
    /\ dirs = {}
    /\ modcache = <<>>
    /\ err = ""
    /\ runs = 0
    /\ edits = 0
    /\ pre = <<>>
    /\ last = NoLast
    /\ log = <<>>

\* The process ends: normally (e = "") or with the exception e.
EndRun(e, fs, body, ms) ==
    /\ pc' = "idle"
    /\ err' = e
    /\ log' = Append(log,
                [err |-> e, src |-> src, edits |-> edits, pre |-> pre,
                 post |-> fs, added |-> body, mods |-> ms])

\* The developer starts the program: get_submodule_tree(mod) is called.
StartRun ==
    /\ pc = "idle"
    /\ runs < MaxRuns
    /\ runs' = runs + 1
    /\ pc' = "build"
    /\ stack' = <<Frame(graph, "r")>>
    /\ tree' = Dict(<<>>)
    /\ mods' = <<>>
    /\ idx' = 1
    /\ modcache' = <<>>
    /\ err' = ""
    /\ pre' = files
    /\ last' = NoLast
    /\ UNCHANGED <<graph, src, files, dirs, edits, log>>

\* _build_tree reaches the call for its next child.
BuildCall ==
    /\ pc = "build"
    /\ LET top == Last(stack) IN
        /\ top.i <= Len(top.children)
        /\ LET item == top.children[top.i] IN
            /\ Len(stack) < MaxDepth \/ Nodes(graph)[item].name \in Ignore
            /\ stack' = IF Nodes(graph)[item].name \in Ignore
                     THEN [stack EXCEPT ![Len(stack)].i = @ + 1]
                     ELSE Append(stack, Frame(graph, item))
    /\ UNCHANGED <<graph, src, pc, tree, mods, idx, files, dirs, modcache, err,
                   runs, edits, pre, last, log>>

\* The call would exceed the interpreter's recursion limit.
BuildOverflow ==
    /\ pc = "build"
    /\ Len(stack) >= MaxDepth
    /\ LET top == Last(stack) IN
        /\ top.i <= Len(top.children)
        /\ Nodes(graph)[top.children[top.i]].name \notin Ignore
    /\ stack' = <<>>
    /\ EndRun("RecursionError", files, <<>>, mods)
    /\ UNCHANGED <<graph, src, tree, mods, idx, files, dirs, modcache, runs, edits,
                   pre, last>>

\* A call of _build_tree returns: the module itself when it has no
\* children, else the dict of its children.
BuildReturn ==
    /\ pc = "build"
    /\ LET top == Last(stack)
           val == IF top.children = <<>> THEN Leaf(top.root)
                  ELSE Dict(top.result)
       IN
        /\ top.i > Len(top.children)
        /\ IF Len(stack) = 1
           THEN /\ tree' = val
                /\ stack' = <<>>
                /\ pc' = "setup"
           ELSE /\ stack' = [Front(stack) EXCEPT ![Len(stack) - 1] =
                       [@ EXCEPT !.result = DictSet(@, Nodes(graph)[top.root].name, val),
                                 !.i = @ + 1]]
                /\ UNCHANGED <<tree, pc>>
    /\ UNCHANGED <<graph, src, mods, idx, files, dirs, modcache, err, runs,
                   edits, pre, last, log>>


\* setup_files(sys.argv[-1], modules)
SetupFiles ==
    /\ pc = "setup"
    /\ LET st == SetupFilesResult(graph, src, tree, files, dirs) IN
        /\ mods' = st.result
        /\ files' = st.files
        /\ dirs' = st.dirs
        /\ IF st.result = <<>>
           THEN EndRun("", st.files, <<>>, st.result)
           ELSE pc' = "gen" /\ UNCHANGED <<err, log>>
    /\ idx' = 1
    /\ UNCHANGED <<graph, src, stack, tree, modcache, runs, edits, pre, last>>

\* One pass of the loop of generate_tests: the leaf's test module is
\* imported, and the stubs of what it lacks are appended to the file.  An
\* exception of the import ends the run.
GenerateLeaf ==
    /\ pc = "gen"
    /\ idx <= Len(mods)
    /\ LET path    == mods[idx].path
           testmod == mods[idx].testmod
           mod     == ModuleObject(graph, src, mods[idx].mod)
           got     == ImportModule(testmod, modcache, files, dirs, src)
           body    == GenerateBody(mod, got.module)
       IN
        IF got.err # ""
        THEN /\ EndRun(got.err, files, last.added, mods)
             /\ UNCHANGED <<files, modcache, idx, last>>
        ELSE /\ files' = AppendFile(files, path, body)
             /\ modcache' = (testmod :> got.module) @@ modcache
             /\ idx' = idx + 1
             /\ last' = [testmod |-> testmod, loaded |-> got.module,
                         source |-> mod,
                         body |-> body, added |-> last.added \o body]
             /\ IF idx = Len(mods)
                THEN EndRun("", files', last.added \o body, mods)
                ELSE UNCHANGED <<pc, err, log>>
    /\ UNCHANGED <<graph, src, stack, tree, mods, dirs, runs, edits, pre>>

----------------------------------------------------------------------------
\* The developer, between runs.

\* A method n is added to class C.
AddMethod ==
    /\ pc = "idle"
    /\ edits < MaxEdits
    /\ \E b \in src :
        /\ b.key = "C"
        /\ "n" \notin Keys(b.ent.members)
        /\ src' = (src \ {b}) \cup
             {Bind("C", [b.ent EXCEPT !.members =
                            @ \cup {Def(Fn("n", b.ent.module))}])}
    /\ edits' = edits + 1
    /\ UNCHANGED <<graph, pc, stack, tree, mods, idx, files, dirs, modcache,
                   err, runs, pre, last, log>>

\* A function b is added to the leaf module.
AddFunction ==
    /\ pc = "idle"
    /\ edits < MaxEdits
    /\ "b" \notin Keys(src)
    /\ src' = src \cup {Def(Fn("b", LeafName(graph)))}
    /\ edits' = edits + 1
    /\ UNCHANGED <<graph, pc, stack, tree, mods, idx, files, dirs, modcache,
                   err, runs, pre, last, log>>

\* A test of a function of the leaf module is written by hand at the end
\* of a test file that does not define one yet.
HandWriteTest ==
    /\ pc = "idle"
    /\ edits < MaxEdits
    /\ \E path \in DOMAIN files, f \in {"a", "b"} :
        /\ f \in Keys(src)
        /\ ~\E i \in DOMAIN files[path] :
              files[path][i].kind = "def" /\ files[path][i].name = "test_" \o f
        /\ files' = [files EXCEPT ![path] =
                       @ \o <<Line(0, "def", "test_" \o f, ""),
                              Line(4, "stmt", "assert", "")>>]
    /\ edits' = edits + 1
    /\ UNCHANGED <<graph, src, pc, stack, tree, mods, idx, dirs, modcache,
                   err, runs, pre, last, log>>

Next ==
    \/ StartRun
    \/ BuildCall
    \/ BuildOverflow
    \/ BuildReturn
    \/ SetupFiles
    \/ GenerateLeaf
    \/ AddMethod
    \/ AddFunction
    \/ HandWriteTest

Spec == Init /\ [][Next]_vars

----------------------------------------------------------------------------
\* Properties.  log[k] records run k: the sources it saw, the files before
\* (pre) and after (post) it, the text generate_tests appended (added), the
\* list setup_files returned (mods) and the exception that ended it (err).

HasDef(text, ind, name) ==
    \E i \in DOMAIN text :
        text[i].kind = "def" /\ text[i].ind = ind /\ text[i].name = name

HasClass(text, ind, name) ==
    \E i \in DOMAIN text :
        text[i].kind = "class" /\ text[i].ind = ind /\ text[i].name = name

CountDef(text, name) ==
    Cardinality({i \in DOMAIN text :
                    text[i].kind = "def" /\ text[i].name = name})

Headers(text) ==
    Cardinality({i \in DOMAIN text : text[i].kind \in {"from", "import"}})

\* The names of the functions and classes a loaded module defines itself.
DefinedNames(module) ==
    {b.ent.name : b \in {x \in module.members : x.ent.module = module.name}}

\* The functions the module with these members defines at top level.
TopFunctions(module) ==
    {b.ent : b \in {x \in module.members :
                      x.ent.kind = "function" /\ x.ent.module = module.name}}

\* Every leaf is listed once in what setup_files returned.
ListedOnce(ms) ==
    \A i, j \in DOMAIN ms : ms[i].mod = ms[j].mod => i = j

\* C2: processing a leaf appends the stub test_f of a top-level function f
\* exactly when the test module as loaded defines nothing named test_f; and a
\* run never appends test_f to a file that held a top-level test_f before it.
C2_StubIffNoTest ==
    /\ last.testmod # <<>> =>
         \A f \in TopFunctions(last.source) :
            HasDef(last.body, 0, "test_" \o f.name)
            <=> "test_" \o f.name \notin DefinedNames(last.loaded)
    /\ \A k \in DOMAIN log :
         \A p \in DOMAIN log[k].pre :
            \A f \in TopFunctions(Module(LeafName(graph), log[k].src)) :
               HasDef(log[k].pre[p], 0, "test_" \o f.name)
               => ~HasDef(log[k].added, 0, "test_" \o f.name)

\* A test of b written by hand (its body is a statement, not a placeholder).
HandWritten(text, name) ==
    \E i \in DOMAIN text :
        /\ text[i].kind = "def" /\ text[i].name = name
        /\ i < Len(text) /\ text[i + 1].kind = "stmt"

\* A run that found the hand-written test_b and appended no test_b, after a
\* run that appended the stub test_a.
C2_Witness ==
    \E j, k \in DOMAIN log :
        /\ j < k
        /\ HasDef(log[j].added, 0, "test_a")
        /\ log[k].err = ""
        /\ "b" \in Keys(log[k].src)
        /\ \E p \in DOMAIN log[k].pre : HandWritten(log[k].pre[p], "test_b")
        /\ ~HasDef(log[k].added, 0, "test_b")

\* What a run keeps of the files it found.
Kept(before, after) ==
    /\ \A p \in DOMAIN before :
         /\ p \in DOMAIN after
         /\ IsPrefix(before[p], after[p])
         /\ Headers(after[p]) = Headers(before[p])
    /\ \A p \in DOMAIN after \ DOMAIN before :
         /\ Headers(after[p]) = 2
         /\ after[p][1].kind \in {"from", "import"}

\* C5: a run leaves what every test file held before it as a prefix of what
\* the file holds after it, and writes an import header only into a file it
\* creates.
C5_AppendOnly ==
    /\ pc # "idle" => Kept(pre, files)
    /\ \A k \in DOMAIN log : Kept(log[k].pre, log[k].post)

\* A run that appended to a file holding a test written by hand.
C5_Witness ==
    \E k \in DOMAIN log :
        \E p \in DOMAIN log[k].pre :
            /\ \E i \in DOMAIN log[k].pre[p] : log[k].pre[p][i].kind = "stmt"
            /\ Len(log[k].post[p]) > Len(log[k].pre[p])

\* The lines of text that declare a test.
Stubs(text) == SelectSeq(text, LAMBDA ln : ln.kind \in {"def", "class"})

\* The file import_module(testmod) reads.
Designated(testmod) == FilePath(Front(testmod), Last(testmod), ".py")

\* The class bound to key in members, as a set (empty when there is none).
ClassAt(members, key) ==
    {b.ent : b \in {x \in members : x.key = key /\ x.ent.kind = "class"}}

\* C1: a run with the same sources, right after a run that started from an
\* empty output directory and completed, completes and appends no stub.
C1_SecondRunAddsNothing ==
    \A k \in DOMAIN log :
        (/\ k > 1
         /\ DOMAIN log[k - 1].pre = {}
         /\ log[k - 1].err = ""
         /\ log[k].src = log[k - 1].src
         /\ log[k].edits = log[k - 1].edits)
        => log[k].err = "" /\ Stubs(log[k].added) = <<>>

\* C3: when the file as the run finds it declares TestC with test_m and
\* without test_n, and class C has the methods m and n, the run appends one
\* stub test_n (indented once, with self), no class TestC line and no test_m,
\* and keeps the text the file held.
C3_OneStubForNewMethod ==
    \A k \in DOMAIN log :
        LET r  == log[k]
            p  == r.mods[1].path
            tm == r.mods[1].testmod
            ld == LoadModule(tm, r.pre[p], r.src)
        IN  (/\ r.err = ""
             /\ r.mods # <<>>
             /\ p \in DOMAIN r.pre
             /\ \E c \in ClassAt(r.src, "C") :
                    Keys(c.members) = {"__init__", "m", "n"}
             /\ ld.ok
             /\ \E t \in ClassAt(ld.module.members, "TestC") :
                    /\ t.module = tm
                    /\ "test_m" \in Keys(t.members)
                    /\ "test_n" \notin Keys(t.members))
            => /\ CountDef(r.added, "test_n") = 1
               /\ \A i \in DOMAIN r.added :
                    r.added[i].name = "test_n"
                    => r.added[i].ind = Spaces /\ r.added[i].arg = "self"
               /\ ~HasClass(r.added, 0, "TestC")
               /\ CountDef(r.added, "test_m") = 0
               /\ IsPrefix(r.pre[p], r.post[p])

\* C4: when the root module is the only leaf and has the functions a and b
\* and the class C with method m, the first run completes, the test module
\* it imports is the file it created, and that file declares test_a, test_b
\* and TestC with test_m.
C4_RootLeafComplete ==
    \A k \in DOMAIN log :
        LET r  == log[k]
            p  == r.mods[1].path
            tm == r.mods[1].testmod
            ld == LoadModule(tm, r.post[p], r.src)
        IN  (/\ graph = "single"
             /\ DOMAIN r.pre = {}
             /\ {"a", "b"} \subseteq Keys(r.src)
             /\ \E c \in ClassAt(r.src, "C") : "m" \in Keys(c.members))
            => /\ r.err = ""
               /\ Len(r.mods) = 1
               /\ Designated(tm) = p
               /\ ld.ok
               /\ {"test_a", "test_b", "TestC"} \subseteq DefinedNames(ld.module)
               /\ \E t \in ClassAt(ld.module.members, "TestC") :
                    "test_m" \in Keys(t.members)

\* C6: the header of a file the run has just created lists the name of every
\* function and class the leaf defines at top level, once each, in the
\* order of the names.
C6_HeaderNamesOnce ==
    pc = "gen" =>
        \A p \in DOMAIN files \ DOMAIN pre :
            LET items == files[p][1].items
                names == {b.ent.name :
                            b \in {x \in src :
                                     /\ x.ent.module = LeafName(graph)
                                     /\ x.ent.kind \in {"function", "class"}}}
            IN  /\ Range(items) = names
                /\ Len(items) = Cardinality(names)
                /\ \A i, j \in DOMAIN items :
                     i < j => Rank(items[i]) < Rank(items[j])

\* How many times the module id is a leaf of the tree t.
RECURSIVE LeafCount(_, _)
LeafCount(t, id) ==
    IF ~t.isDict THEN (IF t.mod = id THEN 1 ELSE 0)
    ELSE IF t.items = <<>> THEN 0
    ELSE LeafCount(Head(t.items).val, id)
         + LeafCount(Dict(Tail(t.items)), id)

\* C7: the leaf module occurs once in the tree that was built and once in
\* the list setup_files returned, so that generate_tests processes it once.
C7_LeafOnce ==
    pc = "gen" =>
        /\ LeafCount(tree, LeafId(graph)) = 1
        /\ ListedOnce(mods)
        /\ Len(mods) = 1

\* The storage path is_submodule compares for a module.
Storage(node) == IF node.hasPath THEN node.path ELSE node.file

\* C8: every module _build_tree descends into lies at a proper extension of
\* the path of the module it was found in, and building the tree never ends
\* in unbounded recursion.
C8_TreeBuilt ==
    /\ \A i \in DOMAIN stack :
         i > 1 =>
           LET child  == Storage(Nodes(graph)[stack[i].root])
               parent == Nodes(graph)[stack[i - 1].root].path
           IN  IsPrefix(parent, child) /\ Len(child) > Len(parent)
    /\ err # "RecursionError"

\* C9: after a first run on a class C with a nested class D, the file loads
\* and shows class TestD one level inside TestC and the stubs of D's methods
\* two levels deep.
C9_NestedClassRendered ==
    \A k \in DOMAIN log :
        LET r == log[k]
            p == r.mods[1].path
        IN  \A c \in ClassAt(r.src, "C") :
              \A d \in ClassAt(c.members, "D") :
                (r.err = "" /\ DOMAIN r.pre = {} /\ ListedOnce(r.mods))
                => /\ Parse(r.post[p]).ok
                   /\ HasClass(r.post[p], Spaces, "TestD")
                   /\ \A f \in Keys(d.members) :
                        HasDef(r.post[p], 2 * Spaces, "test_" \o f)

\* C10: once a run has appended the stub test_n to a file that declared
\* TestC, no later run with the same sources appends test_n again.
C10_AppendedStubRecognised ==
    \A j, k \in DOMAIN log :
        LET p  == log[j].mods[1].path
            ld == LoadModule(log[j].mods[1].testmod, log[j].pre[p], log[j].src)
        IN  (/\ j < k
             /\ log[j].err = "" /\ log[k].err = ""
             /\ ListedOnce(log[j].mods) /\ ListedOnce(log[k].mods)
             /\ p \in DOMAIN log[j].pre
             /\ ld.ok /\ ClassAt(ld.module.members, "TestC") # {}
             /\ HasDef(log[j].added, Spaces, "test_n")
             /\ log[k].src = log[j].src
             /\ log[k].edits = log[j].edits)
            => ~HasDef(log[k].added, Spaces, "test_n")

====
